---- MODULE Spec2Model ----
(***************************************************************************)
(* debug-ctr: the `debug` command.  One session is one run of              *)
(* debugCmd.RunE: a single thread that issues blocking calls to the Docker *)
(* client, one after the other.  The model records every call with its     *)
(* arguments and its result in `ops`, and the position of the thread in    *)
(* `pc`.  Strings the program takes apart or concatenates (image           *)
(* references, volume names, binds) are sequences of one-character         *)
(* strings; names, identifiers and argv elements are strings.              *)
(***************************************************************************)
EXTENDS Integers, Sequences, FiniteSets, TLC

VARIABLES
    debugImage,              \* --image
    targetContainer,         \* --target
    copyContainerName,       \* --copy-to
    entryPointOverride,      \* --entrypoint (entrypointFlag)
    cmdOverride,             \* --cmd (cmdFlag)
    pc,                      \* the call the session is at (or failed at)
    ops,                     \* the runtime calls issued so far, with results
    toolkitContainerResp,    \* ID of the toolkit container ("" before)
    addMountContainerResp,   \* ID of the addmount container ("" before)
    resp,                    \* ID of the container that fills the volume
    inspect,                 \* result of the inspect that is copied from
    copyContainerCreateResp, \* ID of the copy container
    dockerExecCmd,           \* the exec command to print
    printed,                 \* the exec commands logged so far
    outcome,                 \* "running", "done", "error", "panic", "fatal"
    err                      \* the error the session ended with, or Nil

vars == <<debugImage, targetContainer, copyContainerName, entryPointOverride,
          cmdOverride, pc, ops, toolkitContainerResp, addMountContainerResp,
          resp, inspect, copyContainerCreateResp, dockerExecCmd, printed,
          outcome, err>>

flags == <<debugImage, targetContainer, copyContainerName, entryPointOverride,
           cmdOverride>>

(***************************************************************************)
(* Bounds and input sets.                                                  *)
(***************************************************************************)
MaxLen == 2
MaxRefLen == 3

SeqsUpTo(S, n) == UNION {[1..k -> S] : k \in 0..n}

Nil == "nil"
Errors == {"e1", "e2"}
Results == {Nil} \cup Errors

ContainerIDs == {"c1", "c2"}
TargetNames == {"tgt"}
CopyNames == {"", "cp", "tgt"}
ArgVals == {"a", "b"}
OrigVals == {"a"}
RefChars == {"a", ":", "/"}

\* a short reference and one with a registry path and a tag
SampleImages == { <<"b">>, <<"r", "/", "l", "/", "b", ":", "1">> }
TargetImage == <<"s", "h", "a">>

\* const addMountImage = "justincormack/addmount:latest"
addMountImage ==
    <<"j", "u", "s", "t", "i", "n", "c", "o", "r", "m", "a", "c", "k", "/",
      "a", "d", "d", "m", "o", "u", "n", "t", ":", "l", "a", "t", "e", "s", "t">>

DockerSockBind ==
    <<"/", "v", "a", "r", "/", "r", "u", "n", "/", "d", "o", "c", "k", "e",
      "r", ".", "s", "o", "c", "k", ":", "/", "v", "a", "r", "/", "r", "u",
      "n", "/", "d", "o", "c", "k", "e", "r", ".", "s", "o", "c", "k">>

VolumePrefix == <<"d", "e", "b", "u", "g", "-", "c", "t", "r", "-">>
BinPath == <<"/", "b", "i", "n">>
DebuggerPath == <<"/", ".", "d", "e", "b", "u", "g", "g", "e", "r">>

(***************************************************************************)
(* The Docker client's calls, as the records kept in `ops`.                *)
(***************************************************************************)
\* container.Config{} and a nil / empty container.HostConfig
ZeroConfig ==
    [Image |-> <<>>, User |-> "", Env |-> <<>>, Entrypoint |-> <<>>,
     Cmd |-> <<>>, WorkingDir |-> "", Labels |-> <<>>]
ZeroHostConfig ==
    [AutoRemove |-> FALSE, Privileged |-> FALSE, PidMode |-> "", Binds |-> <<>>]

ZeroInspect == [Image |-> <<>>, Config |-> ZeroConfig]

Op(kind, ctr, image, config, hostConfig, force, result, id) ==
    [op |-> kind, ctr |-> ctr, image |-> image, config |-> config,
     hostConfig |-> hostConfig, force |-> force, res |-> result, id |-> id]

ContainerInspect(ctr, r) ==
    Op("inspect", ctr, <<>>, ZeroConfig, ZeroHostConfig, FALSE, r, "")
ImagePull(image, r) ==
    Op("pull", "", image, ZeroConfig, ZeroHostConfig, FALSE, r, "")
ContainerCreate(config, hostConfig, name, r, id) ==
    Op("create", name, config.Image, config, hostConfig, FALSE, r, id)
ContainerStart(id, r) ==
    Op("start", id, <<>>, ZeroConfig, ZeroHostConfig, FALSE, r, "")
ContainerWait(id, r) ==
    Op("wait", id, <<>>, ZeroConfig, ZeroHostConfig, FALSE, r, "")
ContainerRemove(id, force, r) ==
    Op("remove", id, <<>>, ZeroConfig, ZeroHostConfig, force, r, "")

\* IDs the runtime has handed out, and the ones it may hand out next
UsedIDs == {ops[i].id : i \in 1..Len(ops)} \ {""}
FreshIDs == ContainerIDs \ UsedIDs

\* what an inspect of an existing container may return
InspectResponses ==
    { [Image |-> TargetImage,
       Config |-> [Image |-> TargetImage, User |-> "u", Env |-> <<"K=v">>,
                   Entrypoint |-> e, Cmd |-> c, WorkingDir |-> "/w",
                   Labels |-> <<"l">>]] :
        e \in SeqsUpTo(OrigVals, MaxLen), c \in SeqsUpTo(OrigVals, MaxLen) }

\* pullImage: ImagePull fails, or the copy of the progress stream fails
PullResults ==
    { IF open # Nil THEN open ELSE copy : open \in Results, copy \in Results }

\* a create under the name of the (existing) target is a name conflict
CreateResults(name) ==
    IF name # "" /\ name = targetContainer THEN Errors ELSE Results

\* strings.Replace(s, old, new, n) for a one-character old
RECURSIVE Replace(_, _, _, _)
Replace(s, old, new, n) ==
    IF s = <<>> \/ n = 0 THEN s
    ELSE IF Head(s) = old
         THEN <<new>> \o Replace(Tail(s), old, new, n - 1)
         ELSE <<Head(s)>> \o Replace(Tail(s), old, new, n)

(***************************************************************************)
(* Steps shared by the actions.                                            *)
(***************************************************************************)
Call(o) == ops' = Append(ops, o)

\* `return err` out of RunE
ReturnErr(e) == /\ outcome' = "error"
                /\ err' = e
                /\ pc' = pc

Goto(l) == /\ pc' = l
           /\ UNCHANGED <<outcome, err>>

At(l) == pc = l /\ outcome = "running"

(***************************************************************************)
(* debugCmd.RunE                                                           *)
(***************************************************************************)
Init ==
    /\ debugImage \in SampleImages
    /\ targetContainer \in TargetNames
    /\ copyContainerName \in CopyNames
    /\ entryPointOverride \in SeqsUpTo(ArgVals, MaxLen)
    /\ cmdOverride \in SeqsUpTo(ArgVals, MaxLen)
    /\ pc = "inspect"
    /\ ops = <<>>
    /\ toolkitContainerResp = ""
    /\ addMountContainerResp = ""
    /\ resp = ""
    /\ inspect = ZeroInspect
    /\ copyContainerCreateResp = ""
    /\ dockerExecCmd = <<>>
    /\ printed = <<>>
    /\ outcome = "running"
    /\ err = Nil

\* Check target container exists
InspectTarget ==
    /\ At("inspect")
    /\ \E r \in Results :
         /\ Call(ContainerInspect(targetContainer, r))
         /\ IF r # Nil THEN ReturnErr(r) ELSE Goto("pull")
    /\ UNCHANGED <<flags, toolkitContainerResp, addMountContainerResp, resp,
                   inspect, copyContainerCreateResp, dockerExecCmd, printed>>

\* pullImage(ctx, debugImage), then the branch on copyContainerName
PullDebugImage ==
    /\ At("pull")
    /\ \E r \in PullResults :
         /\ Call(ImagePull(debugImage, r))
         /\ IF r # Nil THEN ReturnErr(r)
            ELSE IF copyContainerName = "" THEN Goto("tk_create")
            ELSE Goto("vol_create")
    /\ UNCHANGED <<flags, toolkitContainerResp, addMountContainerResp, resp,
                   inspect, copyContainerCreateResp, dockerExecCmd, printed>>

(***************************************************************************)
(* addMountToTargetContainer                                               *)
(***************************************************************************)
\* the toolkit container takes the --entrypoint override when there is one
ToolkitConfig_Override ==
    [ZeroConfig EXCEPT
        !.Image = debugImage,
        !.Entrypoint = IF Len(entryPointOverride) > 0
                       THEN entryPointOverride
                       ELSE <<"/bin/sh", "-c", "tail -f /dev/null">>]

\* keep container running in the background
ToolkitConfig ==
    [ZeroConfig EXCEPT !.Image = debugImage,
                       !.Entrypoint = <<"/bin/sh", "-c", "tail -f /dev/null">>]

\* source and destination exchanged
AddMountCmd_Swapped == <<targetContainer, "/bin", toolkitContainerResp, "/bin">>

AddMountCmd == <<toolkitContainerResp, "/bin", targetContainer, "/bin">>

AddMountConfig ==
    [ZeroConfig EXCEPT !.Image = addMountImage, !.Cmd = AddMountCmd]

AddMountHostConfig ==
    [AutoRemove |-> TRUE, Privileged |-> TRUE, PidMode |-> "host",
     Binds |-> <<DockerSockBind>>]

\* the cleanup removes the target instead
RemovedContainer_Target == targetContainer

\* the container the cleanup removes
RemovedContainer == toolkitContainerResp

\* Run toolkit image
CreateToolkit ==
    /\ At("tk_create")
    /\ \E r \in CreateResults(""), id \in FreshIDs :
         /\ Call(ContainerCreate(ToolkitConfig, ZeroHostConfig, "", r,
                                 IF r = Nil THEN id ELSE ""))
         /\ IF r # Nil
            THEN ReturnErr(r) /\ UNCHANGED toolkitContainerResp
            ELSE Goto("tk_start") /\ toolkitContainerResp' = id
    /\ UNCHANGED <<flags, addMountContainerResp, resp, inspect,
                   copyContainerCreateResp, dockerExecCmd, printed>>

\* the error of the start is dropped and the flow goes on
StartToolkit_IgnoreErr ==
    /\ At("tk_start")
    /\ \E r \in Results :
         /\ Call(ContainerStart(toolkitContainerResp, r))
         /\ Goto("am_pull")
    /\ UNCHANGED <<flags, toolkitContainerResp, addMountContainerResp, resp,
                   inspect, copyContainerCreateResp, dockerExecCmd, printed>>

StartToolkit ==
    /\ At("tk_start")
    /\ \E r \in Results :
         /\ Call(ContainerStart(toolkitContainerResp, r))
         /\ IF r # Nil THEN ReturnErr(r) ELSE Goto("am_pull")
    /\ UNCHANGED <<flags, toolkitContainerResp, addMountContainerResp, resp,
                   inspect, copyContainerCreateResp, dockerExecCmd, printed>>

\* Add mount to the original container
PullAddMountImage ==
    /\ At("am_pull")
    /\ \E r \in PullResults :
         /\ Call(ImagePull(addMountImage, r))
         /\ IF r # Nil THEN ReturnErr(r) ELSE Goto("am_create")
    /\ UNCHANGED <<flags, toolkitContainerResp, addMountContainerResp, resp,
                   inspect, copyContainerCreateResp, dockerExecCmd, printed>>

CreateAddMount ==
    /\ At("am_create")
    /\ \E r \in CreateResults(""), id \in FreshIDs :
         /\ Call(ContainerCreate(AddMountConfig, AddMountHostConfig, "", r,
                                 IF r = Nil THEN id ELSE ""))
         /\ IF r # Nil
            THEN ReturnErr(r) /\ UNCHANGED addMountContainerResp
            ELSE Goto("am_start") /\ addMountContainerResp' = id
    /\ UNCHANGED <<flags, toolkitContainerResp, resp, inspect,
                   copyContainerCreateResp, dockerExecCmd, printed>>

\* a failed start of the bridge is tried again
StartAddMount_Retry ==
    /\ At("am_start")
    /\ \E r \in Results :
         /\ Call(ContainerStart(addMountContainerResp, r))
         /\ IF r # Nil THEN Goto("am_start") ELSE Goto("am_wait")
    /\ UNCHANGED <<flags, toolkitContainerResp, addMountContainerResp, resp,
                   inspect, copyContainerCreateResp, dockerExecCmd, printed>>

StartAddMount ==
    /\ At("am_start")
    /\ \E r \in Results :
         /\ Call(ContainerStart(addMountContainerResp, r))
         /\ IF r # Nil THEN ReturnErr(r) ELSE Goto("am_wait")
    /\ UNCHANGED <<flags, toolkitContainerResp, addMountContainerResp, resp,
                   inspect, copyContainerCreateResp, dockerExecCmd, printed>>

\* a wait error is dropped and the cleanup runs
WaitAddMount_IgnoreErr ==
    /\ At("am_wait")
    /\ \E r \in Results :
         /\ Call(ContainerWait(addMountContainerResp, r))
         /\ Goto("tk_remove")
    /\ UNCHANGED <<flags, toolkitContainerResp, addMountContainerResp, resp,
                   inspect, copyContainerCreateResp, dockerExecCmd, printed>>

\* ContainerWait(WaitConditionRemoved) and the select on its two channels:
\* the client delivers either a status (the container is removed) or a
\* non-nil error; the error is not returned, the session panics with it.
WaitAddMount ==
    /\ At("am_wait")
    /\ \E r \in Results :
         /\ Call(ContainerWait(addMountContainerResp, r))
         /\ IF r # Nil
            THEN outcome' = "panic" /\ err' = r /\ pc' = pc
            ELSE Goto("tk_remove")
    /\ UNCHANGED <<flags, toolkitContainerResp, addMountContainerResp, resp,
                   inspect, copyContainerCreateResp, dockerExecCmd, printed>>

\* Remove the toolkit container
RemoveToolkit ==
    /\ At("tk_remove")
    /\ \E r \in Results :
         /\ Call(ContainerRemove(RemovedContainer, TRUE, r))
         /\ IF r # Nil THEN ReturnErr(r) ELSE Goto("report")
    /\ UNCHANGED <<flags, toolkitContainerResp, addMountContainerResp, resp,
                   inspect, copyContainerCreateResp, dockerExecCmd, printed>>

(***************************************************************************)
(* createCopyContainer                                                     *)
(***************************************************************************)
\* only the first '/' is replaced
VolumeName_FirstSlash(image) ==
    Replace(Replace(image, ":", "_", 1), "/", "_", 1)

\* Create one volume per container to debug to avoid overwriting binaries
VolumeName(image) == Replace(Replace(image, ":", "_", 1), "/", "_", -1)

Volume(image) == VolumePrefix \o VolumeName(image)

VolumeConfig == [ZeroConfig EXCEPT !.Image = debugImage]

\* the container that fills the volume is created privileged
VolumeHostConfig_Privileged ==
    [ZeroHostConfig EXCEPT
        !.AutoRemove = TRUE,
        !.Privileged = TRUE,
        !.Binds = <<Volume(debugImage) \o <<":">> \o BinPath>>]

VolumeHostConfig ==
    [ZeroHostConfig EXCEPT !.AutoRemove = TRUE,
                           !.Binds = <<Volume(debugImage) \o <<":">> \o BinPath>>]

\* the override list is put in front of the original instead of replacing it
Effective_Merge(override, original) ==
    IF Len(override) > 0 THEN override \o original ELSE original

\* var x = original; if len(override) > 0 { x = copy of override }
Effective(override, original) ==
    IF Len(override) > 0
    THEN [i \in 1..Len(override) |-> override[i]]
    ELSE original

containerEntrypoint == Effective(entryPointOverride, inspect.Config.Entrypoint)
containerCmd == Effective(cmdOverride, inspect.Config.Cmd)

CopyConfig ==
    [Image |-> inspect.Image,
     User |-> inspect.Config.User,
     Env |-> inspect.Config.Env,
     Entrypoint |-> containerEntrypoint,
     Cmd |-> containerCmd,
     WorkingDir |-> inspect.Config.WorkingDir,
     Labels |-> inspect.Config.Labels]

\* the copy mounts the tool volume over its own /bin
CopyHostConfig_Bin ==
    [ZeroHostConfig EXCEPT
        !.Binds = <<Volume(debugImage) \o <<":">> \o BinPath>>]

CopyHostConfig ==
    [ZeroHostConfig EXCEPT
        !.Binds = <<Volume(debugImage) \o <<":">> \o DebuggerPath>>]

CreateVolumeContainer ==
    /\ At("vol_create")
    /\ \E r \in CreateResults(""), id \in FreshIDs :
         /\ Call(ContainerCreate(VolumeConfig, VolumeHostConfig, "", r,
                                 IF r = Nil THEN id ELSE ""))
         /\ IF r # Nil
            THEN ReturnErr(r) /\ UNCHANGED resp
            ELSE Goto("vol_start") /\ resp' = id
    /\ UNCHANGED <<flags, toolkitContainerResp, addMountContainerResp,
                   inspect, copyContainerCreateResp, dockerExecCmd, printed>>

StartVolumeContainer ==
    /\ At("vol_start")
    /\ \E r \in Results :
         /\ Call(ContainerStart(resp, r))
         /\ IF r # Nil THEN ReturnErr(r) ELSE Goto("cp_inspect")
    /\ UNCHANGED <<flags, toolkitContainerResp, addMountContainerResp, resp,
                   inspect, copyContainerCreateResp, dockerExecCmd, printed>>

\* Create the "copy" container
InspectForCopy ==
    /\ At("cp_inspect")
    /\ \/ \E r \in Errors :
            /\ Call(ContainerInspect(targetContainer, r))
            /\ ReturnErr(r)
            /\ UNCHANGED inspect
       \/ \E i \in InspectResponses :
            /\ Call(ContainerInspect(targetContainer, Nil))
            /\ Goto("cp_create")
            /\ inspect' = i
    /\ UNCHANGED <<flags, toolkitContainerResp, addMountContainerResp, resp,
                   copyContainerCreateResp, dockerExecCmd, printed>>

CreateCopy ==
    /\ At("cp_create")
    /\ \E r \in CreateResults(copyContainerName), id \in FreshIDs :
         /\ Call(ContainerCreate(CopyConfig, CopyHostConfig,
                                 copyContainerName, r,
                                 IF r = Nil THEN id ELSE ""))
         /\ IF r # Nil
            THEN ReturnErr(r) /\ UNCHANGED copyContainerCreateResp
            ELSE Goto("cp_start") /\ copyContainerCreateResp' = id
    /\ UNCHANGED <<flags, toolkitContainerResp, addMountContainerResp, resp,
                   inspect, dockerExecCmd, printed>>

StartCopy ==
    /\ At("cp_start")
    /\ \E r \in Results :
         /\ Call(ContainerStart(copyContainerCreateResp, r))
         /\ IF r # Nil THEN ReturnErr(r) ELSE Goto("report")
    /\ UNCHANGED <<flags, toolkitContainerResp, addMountContainerResp, resp,
                   inspect, copyContainerCreateResp, dockerExecCmd, printed>>

(***************************************************************************)
(* debugCmd.RunE, after the strategy returned nil                          *)
(***************************************************************************)
\* fmt.Sprintf("docker exec -it %s /bin/sh", debugContainer)
LiveExecCmd(debugContainer) ==
    <<"docker exec -it ", debugContainer, " /bin/sh">>

\* fmt.Sprintf(`docker exec -it %s /.debugger/sh -c "PATH=..."`, name)
CopyExecCmd(name) ==
    <<"docker exec -it ", name,
      " /.debugger/sh -c \"PATH=\\$PATH:/.debugger /.debugger/sh\"">>

\* the hint of the live-mount branch, whatever the branch
ExecCmd_AlwaysTarget == LiveExecCmd(targetContainer)

ExecCmd ==
    IF copyContainerName = ""
    THEN LiveExecCmd(targetContainer)
    ELSE CopyExecCmd(copyContainerName)

\* dockerExecCmd = ...; log.Printf("$ %s", dockerExecCmd)
ReportExecHint ==
    /\ At("report")
    /\ dockerExecCmd' = ExecCmd
    /\ printed' = Append(printed, dockerExecCmd')
    /\ Goto("launch")
    /\ UNCHANGED <<flags, ops, toolkitContainerResp, addMountContainerResp,
                   resp, inspect, copyContainerCreateResp>>

\* switch runtime.GOOS: on darwin the command is opened in an iTerm tab,
\* and log.Fatal ends the process when osascript fails
GOOS == {"darwin", "linux"}

LaunchTerminal ==
    /\ At("launch")
    /\ \E goos \in GOOS, r \in Results :
         IF goos = "darwin" /\ r # Nil
         THEN outcome' = "fatal" /\ err' = r /\ pc' = pc
         ELSE outcome' = "done" /\ err' = Nil /\ pc' = "done"
    /\ UNCHANGED <<flags, ops, toolkitContainerResp, addMountContainerResp,
                   resp, inspect, copyContainerCreateResp, dockerExecCmd,
                   printed>>

addMountToTargetContainer ==
    \/ CreateToolkit
    \/ StartToolkit
    \/ PullAddMountImage
    \/ CreateAddMount
    \/ StartAddMount
    \/ WaitAddMount
    \/ RemoveToolkit

createCopyContainer ==
    \/ CreateVolumeContainer
    \/ StartVolumeContainer
    \/ InspectForCopy
    \/ CreateCopy
    \/ StartCopy

Next ==
    \/ InspectTarget
    \/ PullDebugImage
    \/ addMountToTargetContainer
    \/ createCopyContainer
    \/ ReportExecHint
    \/ LaunchTerminal

Spec == Init /\ [][Next]_vars

(***************************************************************************)
(* cmd/debug.go: debugCmd.RunE of the command without --copy-to.  It       *)
(* shares the flags and the Docker client; `resp`, `inspect` and           *)
(* `copyContainerCreateResp` (there: targetContainerCreate) are its locals.*)
(***************************************************************************)
InitCmdDebug ==
    /\ debugImage \in SampleImages
    /\ targetContainer \in TargetNames
    /\ copyContainerName = ""
    /\ entryPointOverride \in SeqsUpTo(ArgVals, MaxLen)
    /\ cmdOverride \in SeqsUpTo(ArgVals, MaxLen)
    /\ pc = "d_pull"
    /\ ops = <<>>
    /\ toolkitContainerResp = ""
    /\ addMountContainerResp = ""
    /\ resp = ""
    /\ inspect = ZeroInspect
    /\ copyContainerCreateResp = ""
    /\ dockerExecCmd = <<>>
    /\ printed = <<>>
    /\ outcome = "running"
    /\ err = Nil

CmdDebugVolumeName(image) == Replace(Replace(image, ":", "_", 1), "/", "_", 1)

CmdDebugVolume(image) == VolumePrefix \o CmdDebugVolumeName(image)

CmdDebugVolumeHostConfig ==
    [ZeroHostConfig EXCEPT
        !.AutoRemove = TRUE,
        !.Binds = <<CmdDebugVolume(debugImage) \o <<":">> \o BinPath>>]

CmdDebugCopyHostConfig ==
    [ZeroHostConfig EXCEPT
        !.Binds = <<CmdDebugVolume(debugImage) \o <<":">> \o DebuggerPath>>]

\* Get the bin folder of the image fs into a volume
CmdDebugPull ==
    /\ At("d_pull")
    /\ \E r \in PullResults :
         /\ Call(ImagePull(debugImage, r))
         /\ IF r # Nil THEN ReturnErr(r) ELSE Goto("d_vol_create")
    /\ UNCHANGED <<flags, toolkitContainerResp, addMountContainerResp, resp,
                   inspect, copyContainerCreateResp, dockerExecCmd, printed>>

CmdDebugCreateVolumeContainer ==
    /\ At("d_vol_create")
    /\ \E r \in CreateResults(""), id \in FreshIDs :
         /\ Call(ContainerCreate(VolumeConfig, CmdDebugVolumeHostConfig, "", r,
                                 IF r = Nil THEN id ELSE ""))
         /\ IF r # Nil
            THEN ReturnErr(r) /\ UNCHANGED resp
            ELSE Goto("d_vol_start") /\ resp' = id
    /\ UNCHANGED <<flags, toolkitContainerResp, addMountContainerResp,
                   inspect, copyContainerCreateResp, dockerExecCmd, printed>>

CmdDebugStartVolumeContainer ==
    /\ At("d_vol_start")
    /\ \E r \in Results :
         /\ Call(ContainerStart(resp, r))
         /\ IF r # Nil THEN ReturnErr(r) ELSE Goto("d_inspect")
    /\ UNCHANGED <<flags, toolkitContainerResp, addMountContainerResp, resp,
                   inspect, copyContainerCreateResp, dockerExecCmd, printed>>

\* Create debug container
CmdDebugInspect ==
    /\ At("d_inspect")
    /\ \/ \E r \in Errors :
            /\ Call(ContainerInspect(targetContainer, r))
            /\ ReturnErr(r)
            /\ UNCHANGED inspect
       \/ \E i \in InspectResponses :
            /\ Call(ContainerInspect(targetContainer, Nil))
            /\ Goto("d_create")
            /\ inspect' = i
    /\ UNCHANGED <<flags, toolkitContainerResp, addMountContainerResp, resp,
                   copyContainerCreateResp, dockerExecCmd, printed>>

CmdDebugCreate ==
    /\ At("d_create")
    /\ \E r \in CreateResults(""), id \in FreshIDs :
         /\ Call(ContainerCreate(CopyConfig, CmdDebugCopyHostConfig, "", r,
                                 IF r = Nil THEN id ELSE ""))
         /\ IF r # Nil
            THEN ReturnErr(r) /\ UNCHANGED copyContainerCreateResp
            ELSE Goto("d_start") /\ copyContainerCreateResp' = id
    /\ UNCHANGED <<flags, toolkitContainerResp, addMountContainerResp, resp,
                   inspect, dockerExecCmd, printed>>

CmdDebugStart ==
    /\ At("d_start")
    /\ \E r \in Results :
         /\ Call(ContainerStart(copyContainerCreateResp, r))
         /\ IF r # Nil THEN ReturnErr(r) ELSE Goto("d_report")
    /\ UNCHANGED <<flags, toolkitContainerResp, addMountContainerResp, resp,
                   inspect, copyContainerCreateResp, dockerExecCmd, printed>>

\* log.Printf(`$ docker exec -it %s /.debugger/sh -c "PATH=..."`, ID); return nil
CmdDebugReport ==
    /\ At("d_report")
    /\ printed' = Append(printed, CopyExecCmd(copyContainerCreateResp))
    /\ outcome' = "done"
    /\ pc' = "d_done"
    /\ UNCHANGED <<flags, ops, toolkitContainerResp, addMountContainerResp,
                   resp, inspect, copyContainerCreateResp, dockerExecCmd, err>>

NextCmdDebug ==
    \/ CmdDebugPull
    \/ CmdDebugCreateVolumeContainer
    \/ CmdDebugStartVolumeContainer
    \/ CmdDebugInspect
    \/ CmdDebugCreate
    \/ CmdDebugStart
    \/ CmdDebugReport

SpecCmdDebug == InitCmdDebug /\ [][NextCmdDebug]_vars

(***************************************************************************)
(* A session of either command on any image reference of bounded length,   *)
(* without overrides: the specification the volume name is checked under.  *)
(***************************************************************************)
InitNaming ==
    /\ debugImage \in SeqsUpTo(RefChars, MaxRefLen)
    /\ targetContainer \in TargetNames
    /\ \/ copyContainerName \in {"", "cp"} /\ pc = "inspect"
       \/ copyContainerName = "" /\ pc = "d_pull"
    /\ entryPointOverride = <<>>
    /\ cmdOverride = <<>>
    /\ ops = <<>>
    /\ toolkitContainerResp = ""
    /\ addMountContainerResp = ""
    /\ resp = ""
    /\ inspect = ZeroInspect
    /\ copyContainerCreateResp = ""
    /\ dockerExecCmd = <<>>
    /\ printed = <<>>
    /\ outcome = "running"
    /\ err = Nil

NextNaming == Next \/ NextCmdDebug

SpecNaming == InitNaming /\ [][NextNaming]_vars

(***************************************************************************)
(* Vocabulary of the properties.                                           *)
(***************************************************************************)
NOps == Len(ops)
Idx == 1..NOps
Ended == outcome # "running"
LiveMount == copyContainerName = ""
CmdDebugPCs == {"d_pull", "d_vol_create", "d_vol_start", "d_inspect",
                "d_create", "d_start", "d_report", "d_done"}
LivePCs == {"tk_create", "tk_start", "am_pull", "am_create", "am_start",
            "am_wait", "tk_remove"}
CopyPCs == {"vol_create", "vol_start", "cp_inspect", "cp_create", "cp_start"}

KeepAlive == <<"/bin/sh", "-c", "tail -f /dev/null">>
IsToolkitCreate(o) ==
    o.op = "create" /\ o.config.Entrypoint = KeepAlive /\ o.hostConfig = ZeroHostConfig
IsVolumeCreate(o) ==
    o.op = "create" /\ o.hostConfig.AutoRemove /\ ~o.hostConfig.Privileged
IsCopyCreate(o) ==
    o.op = "create" /\ o.ctr # "" /\ o.ctr = copyContainerName

\* the first inspect of the target in the session
FirstInspect(i) ==
    /\ ops[i].op = "inspect"
    /\ ops[i].ctr = targetContainer
    /\ \A j \in 1..(i - 1) : ops[j].op # "inspect"

\* C1: when the target does not exist (the first inspect of the target
\* fails), the session fails with that error and the failed inspect is the
\* only runtime operation of the session: nothing before it, nothing after.
C1_MissingTargetOnlyInspect ==
    \A i \in Idx :
        FirstInspect(i) /\ ops[i].res # Nil
            => /\ NOps = 1
               /\ outcome = "error"
               /\ err = ops[i].res

\* ToolkitContainer was started successfully / the force-removals issued for it
ToolkitStarted ==
    /\ toolkitContainerResp # ""
    /\ \E i \in Idx : /\ ops[i].op = "start"
                      /\ ops[i].ctr = toolkitContainerResp
                      /\ ops[i].res = Nil
ToolkitRemovals ==
    { i \in Idx : ops[i].op = "remove" /\ ops[i].force
                  /\ toolkitContainerResp # ""
                  /\ ops[i].ctr = toolkitContainerResp }

\* C2: in the live-mount path, when the session has ended, ToolkitContainer
\* has been force-removed exactly once if it was started successfully
\* (whichever later step failed or succeeded), and zero times only if it was
\* never started.
C2_ToolkitRemovedExactlyOnce ==
    LiveMount /\ Ended
        => /\ ToolkitStarted => Cardinality(ToolkitRemovals) = 1
           /\ Cardinality(ToolkitRemovals) = 0 => ~ToolkitStarted

\* C3: in the copy-container path the entrypoint passed to the CopyContainer
\* create call is the override list itself when the override is non-empty and
\* the target's inspected entrypoint when it is empty; independently, the same
\* holds of the command.
C3_OverrideReplacesWholesale ==
    \A i \in Idx :
        IsCopyCreate(ops[i])
            => /\ ops[i].config.Entrypoint =
                    IF entryPointOverride # <<>>
                    THEN entryPointOverride
                    ELSE inspect.Config.Entrypoint
               /\ ops[i].config.Cmd =
                    IF cmdOverride # <<>> THEN cmdOverride ELSE inspect.Config.Cmd

\* a copy was created with a two-element entrypoint override over a non-empty
\* original, and with no command override over a non-empty original command
C3_Witness ==
    /\ entryPointOverride = <<"b", "a">>
    /\ cmdOverride = <<>>
    /\ inspect.Config.Entrypoint = <<"a">>
    /\ inspect.Config.Cmd = <<"a", "a">>
    /\ \E i \in Idx : /\ IsCopyCreate(ops[i])
                      /\ ops[i].res = Nil
                      /\ ops[i].config.Entrypoint = <<"b", "a">>
                      /\ ops[i].config.Cmd = <<"a", "a">>

\* the phases of the orchestrator
Rank(l) ==
    CASE l = "inspect" -> 1
      [] l = "pull" -> 2
      [] l \in LivePCs \cup CopyPCs -> 3
      [] l = "report" -> 4
      [] l = "launch" -> 5
      [] l = "done" -> 6

AllSucceeded == \A i \in Idx : ops[i].res = Nil

\* the chosen strategy ran to its last call and every call succeeded
StrategyReturnedNil ==
    /\ AllSucceeded
    /\ IF LiveMount
       THEN /\ NOps = 9
            /\ IsToolkitCreate(ops[3])
            /\ ops[9].op = "remove"
       ELSE /\ NOps = 7
            /\ IsVolumeCreate(ops[3])
            /\ IsCopyCreate(ops[6])
            /\ ops[7].op = "start"

ExpectedHint ==
    IF LiveMount
    THEN <<"docker exec -it ", targetContainer, " /bin/sh">>
    ELSE <<"docker exec -it ", copyContainerName,
           " /.debugger/sh -c \"PATH=\\$PATH:/.debugger /.debugger/sh\"">>

C4_Phases ==
    /\ NOps >= 1 => ops[1].op = "inspect" /\ ops[1].ctr = targetContainer
    /\ NOps >= 2 => /\ ops[1].res = Nil
                    /\ ops[2].op = "pull" /\ ops[2].image = debugImage
    /\ NOps >= 3 => /\ ops[2].res = Nil
                    /\ LiveMount <=> IsToolkitCreate(ops[3])
                    /\ ~LiveMount <=> IsVolumeCreate(ops[3])
    /\ pc \in LivePCs => LiveMount
    /\ pc \in CopyPCs => ~LiveMount
    /\ LiveMount => \A i \in Idx : ~IsVolumeCreate(ops[i]) /\ ~IsCopyCreate(ops[i])
    /\ ~LiveMount => \A i \in Idx : /\ ~IsToolkitCreate(ops[i])
                                    /\ ops[i].op \notin {"wait", "remove"}
    /\ Rank(pc) >= 4 => StrategyReturnedNil
    /\ Len(printed) <= 1
    /\ Rank(pc) >= 5 <=> Len(printed) = 1
    /\ printed # <<>> => printed[1] = ExpectedHint

C4_NoStepBack ==
    /\ Rank(pc') \in {Rank(pc), Rank(pc) + 1}
    /\ copyContainerName' = copyContainerName

\* C4: RunE runs VerifyTarget, ProvisionDebugImage, one strategy and
\* ReportExecHint in that order with no step back; the copy strategy runs iff
\* the copy name is non-empty and the live-mount strategy otherwise (never
\* both, never neither); the exec hint is printed at most once, only after
\* the strategy returned without error; it names the target in the live-mount
\* path and the copy name, with PATH extended by /.debugger, in the copy path.
C4_OrchestratorOrder == []C4_Phases /\ [][C4_NoStepBack]_vars

\* a copy session that printed its hint and finished
C4_Witness ==
    /\ pc = "done"
    /\ copyContainerName = "cp"
    /\ printed = <<ExpectedHint>>
    /\ NOps = 7

\* the binds of the tool volume issued so far: creates that bind a volume
\* and are not the privileged bridge
VolumeBinders == { i \in Idx : /\ ops[i].op = "create"
                               /\ ops[i].hostConfig.Binds # <<>>
                               /\ ~ops[i].hostConfig.Privileged }
MountPoint(o) == IF o.hostConfig.AutoRemove THEN BinPath ELSE DebuggerPath

\* r with its first ':' replaced by '_' and its '/' replaced by '_': every
\* '/' when allSlashes, only the first one otherwise
Sanitized(r, allSlashes) ==
    [i \in 1..Len(r) |->
        IF r[i] = ":" /\ \A j \in 1..(i - 1) : r[j] # ":" THEN "_"
        ELSE IF r[i] = "/" /\ (allSlashes \/ \A j \in 1..(i - 1) : r[j] # "/")
             THEN "_"
        ELSE r[i]]

\* r with every ':' and its first '/' replaced by '_'
ColonsAndFirstSlash(r) ==
    [i \in 1..Len(r) |->
        IF r[i] = ":" THEN "_"
        ELSE IF r[i] = "/" /\ \A j \in 1..(i - 1) : r[j] # "/" THEN "_"
        ELSE r[i]]

C6_FirstFailureAborts ==
    \A i \in Idx :
        ops[i].res # Nil
            => /\ i = NOps
               /\ outcome \in {"error", "panic"}
               /\ err = ops[i].res

\* the start of the bridge container failed with e2 after five successes
C6_Witness ==
    /\ NOps = 7
    /\ ops[7].op = "start"
    /\ ops[7].res = "e2"
    /\ outcome = "error"
    /\ err = "e2"

\* the ID the runtime returned for the toolkit container, "" if none
CreatedToolkitID ==
    IF \E i \in Idx : IsToolkitCreate(ops[i]) /\ ops[i].res = Nil
    THEN (CHOOSE o \in {ops[i] : i \in Idx} : IsToolkitCreate(o) /\ o.res = Nil).id
    ELSE ""

\* C7: the only container RemoveContainer is issued for is the
\* ToolkitContainer the session created; the target is never removed, started
\* or created again, and the CopyContainer is never removed.
C7_OnlyToolkitRemoved ==
    \A i \in Idx :
        /\ ops[i].op = "remove"
             => /\ CreatedToolkitID # ""
                /\ ops[i].ctr = CreatedToolkitID
                /\ ops[i].ctr # targetContainer
                /\ ops[i].ctr # copyContainerCreateResp
        /\ ops[i].op \in {"remove", "start", "wait"} => ops[i].ctr # targetContainer
        /\ ops[i].op = "create" /\ ops[i].res = Nil => ops[i].ctr # targetContainer

\* the toolkit container was removed at the end of a live-mount
C7_Witness ==
    /\ NOps = 9
    /\ ops[9].op = "remove"
    /\ ops[9].res = Nil
    /\ ops[9].ctr = toolkitContainerResp
    /\ toolkitContainerResp \in ContainerIDs

\* the call a live-mount session issues in position i, built from the image,
\* the target and what the runtime answered (results and IDs) alone
LiveExpected(i) ==
    CASE i = 1 -> ContainerInspect(targetContainer, ops[i].res)
      [] i = 2 -> ImagePull(debugImage, ops[i].res)
      [] i = 3 -> ContainerCreate(
                    [ZeroConfig EXCEPT !.Image = debugImage,
                                       !.Entrypoint = KeepAlive],
                    ZeroHostConfig, "", ops[i].res, ops[i].id)
      [] i = 4 -> ContainerStart(ops[3].id, ops[i].res)
      [] i = 5 -> ImagePull(addMountImage, ops[i].res)
      [] i = 6 -> ContainerCreate(
                    [ZeroConfig EXCEPT
                        !.Image = addMountImage,
                        !.Cmd = <<ops[3].id, "/bin", targetContainer, "/bin">>],
                    [AutoRemove |-> TRUE, Privileged |-> TRUE,
                     PidMode |-> "host", Binds |-> <<DockerSockBind>>],
                    "", ops[i].res, ops[i].id)
      [] i = 7 -> ContainerStart(ops[6].id, ops[i].res)
      [] i = 8 -> ContainerWait(ops[6].id, ops[i].res)
      [] i = 9 -> ContainerRemove(ops[3].id, TRUE, ops[i].res)

\* C8: in the live-mount path the overrides are ignored: the calls issued,
\* their arguments, the outcome and the hint are determined by the image, the
\* target and the runtime's answers, so two sessions that differ only in
\* --entrypoint/--cmd issue the same calls and end the same way.
C8_OverridesIgnoredLive ==
    LiveMount
        => /\ NOps <= 9
           /\ \A i \in Idx : /\ ops[i] = LiveExpected(i)
                             /\ i > 1 => ops[i - 1].res = Nil
           /\ IF AllSucceeded
              THEN /\ outcome \in {"running", "done", "fatal"}
                   /\ outcome # "running" => NOps = 9
              ELSE /\ outcome = IF ops[NOps].op = "wait" THEN "panic" ELSE "error"
                   /\ err = ops[NOps].res
           /\ printed \in { <<>>, << <<"docker exec -it ", targetContainer,
                                       " /bin/sh">> >> }
           /\ printed # <<>> <=> AllSucceeded /\ NOps = 9 /\ Rank(pc) >= 5

\* a live-mount session given both overrides ran to the end
C8_Witness ==
    /\ LiveMount
    /\ entryPointOverride = <<"a", "b">>
    /\ cmdOverride = <<"b">>
    /\ pc = "done"
    /\ NOps = 9
    /\ Len(printed) = 1

LiveOrder == <<"create", "start", "pull", "create", "start", "wait", "remove">>

\* C9: the live-mount path issues create toolkit, start toolkit, pull helper
\* image, create bridge, start bridge, wait for bridge removal, force-remove
\* toolkit, each only after the one before it succeeded; when the start of the
\* toolkit fails no bridge is created or started; the bridge's command is
\* <toolkit ID, /bin, target, /bin>.
C9_LiveMountOrder ==
    LiveMount
        => /\ NOps <= 9
           /\ \A i \in 3..NOps : /\ ops[i].op = LiveOrder[i - 2]
                                 /\ ops[i - 1].res = Nil
           /\ NOps >= 3 => IsToolkitCreate(ops[3]) /\ ops[3].image = debugImage
           /\ NOps >= 4 => ops[4].ctr = ops[3].id /\ ops[3].id # ""
           /\ NOps >= 4 /\ ops[4].res # Nil
                => /\ NOps = 4
                   /\ outcome = "error"
                   /\ addMountContainerResp = ""
           /\ NOps >= 5 => ops[5].image = addMountImage
           /\ NOps >= 6 => /\ ops[6].image = addMountImage
                           /\ ops[6].config.Cmd =
                                <<ops[3].id, "/bin", targetContainer, "/bin">>
                           /\ ops[6].config.Cmd[1] # targetContainer
           /\ NOps >= 7 => ops[7].ctr = ops[6].id /\ ops[6].id \notin {"", ops[3].id}
           /\ NOps >= 8 => ops[8].ctr = ops[6].id
           /\ NOps >= 9 => ops[9].ctr = ops[3].id /\ ops[9].force

\* all seven calls of the live-mount were issued
C9_Witness ==
    /\ LiveMount
    /\ NOps = 9
    /\ [i \in 1..7 |-> ops[i + 2].op] = LiveOrder
    /\ ops[6].config.Cmd = <<toolkitContainerResp, "/bin", "tgt", "/bin">>

\* C10: the force-removal of ToolkitContainer directly follows a wait on the
\* bridge container that reported it removed; a wait that surfaces an error is
\* the last step: the session terminates with that error, prints no hint and
\* issues no removal.
C10_RemoveAfterWait ==
    \A i \in Idx :
        /\ ops[i].op = "remove"
             => /\ i > 1
                /\ ops[i - 1].op = "wait"
                /\ ops[i - 1].res = Nil
                /\ ops[i - 1].ctr = addMountContainerResp
                /\ addMountContainerResp # ""
        /\ ops[i].op = "wait" /\ ops[i].res # Nil
             => /\ i = NOps
                /\ outcome = "panic"
                /\ err = ops[i].res
                /\ pc = "am_wait"
                /\ printed = <<>>

\* the wait on the bridge container surfaced e1
C10_Witness ==
    /\ NOps = 8
    /\ ops[8].op = "wait"
    /\ ops[8].res = "e1"
    /\ outcome = "panic"

\* the volume a bind "<volume>:<path>" names, given the path
BoundVolume(bind, path) == SubSeq(bind, 1, Len(bind) - Len(path) - 1)
BindsAt(o, path) ==
    /\ Len(o.hostConfig.Binds) = 1
    /\ Len(o.hostConfig.Binds[1]) > Len(path)
    /\ SubSeq(o.hostConfig.Binds[1],
              Len(o.hostConfig.Binds[1]) - Len(path),
              Len(o.hostConfig.Binds[1])) = <<":">> \o path

\* C11: in the copy path the CopyContainer is created only after the
\* auto-removing debug-image container that binds the tool volume at /bin was
\* created and started successfully and after the target was inspected; it
\* binds the same volume at /.debugger under the requested copy name, and it
\* is started only after its creation succeeded.
C11_CopyAfterVolumeFilled ==
    \A i \in Idx :
        /\ IsCopyCreate(ops[i])
             => /\ \E j, k, l \in 1..(i - 1) :
                     /\ j < k /\ k < l
                     /\ IsVolumeCreate(ops[j])
                     /\ ops[j].res = Nil
                     /\ ops[j].image = debugImage
                     /\ BindsAt(ops[j], BinPath)
                     /\ ops[k].op = "start"
                     /\ ops[k].ctr = ops[j].id
                     /\ ops[k].res = Nil
                     /\ ops[l].op = "inspect"
                     /\ ops[l].ctr = targetContainer
                     /\ ops[l].res = Nil
                     /\ BindsAt(ops[i], DebuggerPath)
                     /\ BoundVolume(ops[i].hostConfig.Binds[1], DebuggerPath)
                          = BoundVolume(ops[j].hostConfig.Binds[1], BinPath)
                /\ ops[i].ctr = copyContainerName
                /\ ~ops[i].hostConfig.AutoRemove
                /\ ops[i].image = inspect.Image
        /\ ~LiveMount /\ ops[i].op = "start" /\ i > 5
             => /\ IsCopyCreate(ops[i - 1])
                /\ ops[i - 1].res = Nil
                /\ ops[i].ctr = ops[i - 1].id

\* the copy container "cp" was created and started
C11_Witness ==
    /\ copyContainerName = "cp"
    /\ NOps = 7
    /\ IsCopyCreate(ops[6])
    /\ ops[7].op = "start"
    /\ ops[7].ctr = copyContainerCreateResp
    /\ ops[7].res = Nil

\* a create that asks for elevated privileges, for the host's process
\* namespace or for a bind-mount of the runtime's administrative socket
SocketPath ==
    <<"/", "v", "a", "r", "/", "r", "u", "n", "/", "d", "o", "c", "k", "e",
      "r", ".", "s", "o", "c", "k">>
MountsSocket(o) ==
    \E b \in 1..Len(o.hostConfig.Binds) :
        /\ Len(o.hostConfig.Binds[b]) > Len(SocketPath)
        /\ SubSeq(o.hostConfig.Binds[b], 1, Len(SocketPath) + 1)
             = SocketPath \o <<":">>
Elevated(o) ==
    \/ o.hostConfig.Privileged
    \/ o.hostConfig.PidMode = "host"
    \/ MountsSocket(o)

\* the bridge: the container made from the addmount image
IsBridgeCreate(o) == o.op = "create" /\ o.image = addMountImage

\* C12: the BridgeContainer is created privileged, in the host's process
\* namespace and with the runtime's socket bind-mounted, and it is the only
\* container created with any of the three: the ToolkitContainer, the
\* container that fills the volume and the CopyContainer have none.
C12_OnlyBridgeElevated ==
    \A i \in Idx :
        ops[i].op = "create"
            => /\ IsBridgeCreate(ops[i])
                    => /\ ops[i].hostConfig.Privileged
                       /\ ops[i].hostConfig.PidMode = "host"
                       /\ MountsSocket(ops[i])
                       /\ LiveMount
               /\ Elevated(ops[i]) => IsBridgeCreate(ops[i])
               /\ IsToolkitCreate(ops[i]) => ~Elevated(ops[i])
               /\ (IsVolumeCreate(ops[i]) /\ ~LiveMount) \/ IsCopyCreate(ops[i])
                    => ~Elevated(ops[i]) /\ ~IsBridgeCreate(ops[i])

\* a live-mount that created the toolkit container, not elevated, and then
\* the bridge, elevated in all three ways
C12_Witness ==
    /\ LiveMount
    /\ NOps >= 6
    /\ IsToolkitCreate(ops[3]) /\ ~Elevated(ops[3])
    /\ IsBridgeCreate(ops[6])
    /\ ops[6].hostConfig.Privileged
    /\ ops[6].hostConfig.PidMode = "host"
    /\ MountsSocket(ops[6])
    /\ ops[6].res = Nil

(***************************************************************************)
(* A runtime that may not answer.  Every call is made with                 *)
(* ctx := context.Background(), which has no deadline, and the client is   *)
(* built without a timeout: a call the runtime never answers never         *)
(* returns.  The call is recorded with the result Pending and the session  *)
(* is "blocked" from then on.                                              *)
(***************************************************************************)
Pending == "pending"

CallPCs == {"inspect", "pull"} \cup LivePCs \cup CopyPCs

\* the call RunE makes at position l
CallAt(l) ==
    CASE l = "inspect" -> ContainerInspect(targetContainer, Pending)
      [] l = "pull" -> ImagePull(debugImage, Pending)
      [] l = "tk_create" ->
            ContainerCreate(ToolkitConfig, ZeroHostConfig, "", Pending, "")
      [] l = "tk_start" -> ContainerStart(toolkitContainerResp, Pending)
      [] l = "am_pull" -> ImagePull(addMountImage, Pending)
      [] l = "am_create" ->
            ContainerCreate(AddMountConfig, AddMountHostConfig, "", Pending, "")
      [] l = "am_start" -> ContainerStart(addMountContainerResp, Pending)
      [] l = "am_wait" -> ContainerWait(addMountContainerResp, Pending)
      [] l = "tk_remove" -> ContainerRemove(RemovedContainer, TRUE, Pending)
      [] l = "vol_create" ->
            ContainerCreate(VolumeConfig, VolumeHostConfig, "", Pending, "")
      [] l = "vol_start" -> ContainerStart(resp, Pending)
      [] l = "cp_inspect" -> ContainerInspect(targetContainer, Pending)
      [] l = "cp_create" ->
            ContainerCreate(CopyConfig, CopyHostConfig, copyContainerName,
                            Pending, "")
      [] l = "cp_start" -> ContainerStart(copyContainerCreateResp, Pending)

RuntimeHangs ==
    /\ outcome = "running"
    /\ pc \in CallPCs
    /\ Call(CallAt(pc))
    /\ outcome' = "blocked"
    /\ UNCHANGED <<flags, pc, toolkitContainerResp, addMountContainerResp,
                   resp, inspect, copyContainerCreateResp, dockerExecCmd,
                   printed, err>>

NextBlocking == Next \/ RuntimeHangs

\* the thread runs on whenever the call it made has returned
SpecBlocking == Init /\ [][NextBlocking]_vars /\ WF_vars(Next)

Blocked == outcome = "blocked"
Finished == outcome \in {"done", "error", "panic", "fatal"}
Outstanding == { i \in Idx : ops[i].res = Pending }

\* C13 as stated, its last part: the session is blocked forever only in the
\* wait for the bridge's removal or in a pull.
C13_BlocksOnlyInWaitOrPull ==
    Blocked => ops[NOps].op \in {"wait", "pull"}

C13_OneOutstanding ==
    /\ Cardinality(Outstanding) <= 1
    /\ \A i \in Outstanding : i = NOps /\ Blocked
    /\ Blocked => NOps \in Outstanding
    /\ NOps <= 9

C13_StaysBlocked == Blocked => Blocked' /\ ops' = ops

\* C13, amended: at most one runtime call is outstanding at any time and at
\* most nine calls are issued; if every call returns the session reaches Done
\* or a failure outcome; a call the runtime does not answer blocks the session
\* forever, and that holds of every call (none has a timeout), not only of the
\* wait for the bridge's removal and the pulls.
C13_TerminatesUnlessBlocked ==
    /\ []C13_OneOutstanding
    /\ [][C13_StaysBlocked]_vars
    /\ <>(Blocked \/ Finished)

\* the session is blocked in the create of the copy container
C13_Witness ==
    /\ Blocked
    /\ NOps = 6
    /\ ops[6].op = "create"
    /\ ops[6].res = Pending
    /\ \A i \in 1..5 : ops[i].res = Nil

(***************************************************************************)
(* The containers of the session, as the calls and their answers tell.     *)
(***************************************************************************)
\* removed by a ContainerRemove that succeeded
RemovedByTool ==
    { ops[i].ctr : i \in { j \in Idx : ops[j].op = "remove" /\ ops[j].res = Nil } }

\* gone by themselves: ContainerWait(WaitConditionRemoved) delivered a status
RemovedByRuntime ==
    { ops[i].ctr : i \in { j \in Idx : ops[j].op = "wait" /\ ops[j].res = Nil } }

\* created with AutoRemove: the runtime removes them when they exit
AutoRemoving ==
    { ops[i].id : i \in { j \in Idx : /\ ops[j].op = "create"
                                      /\ ops[j].res = Nil
                                      /\ ops[j].hostConfig.AutoRemove } }

\* created in the session and not removed since, by the tool or (as far as
\* the session was told) by the runtime
StillThere == UsedIDs \ (RemovedByTool \cup RemovedByRuntime)

Failed == outcome \in {"error", "panic"}

====
